---- MODULE Spec2Model ----
(***************************************************************************)
(* pretty_readme.py: rendering of the Dan course dictionaries to README.md *)
(*                                                                         *)
(* A Python str is a sequence of one-character strings, so that escaping,  *)
(* joining and comparing strings are computed character by character.  A   *)
(* Python dict is the sequence of its <<key, value>> items in insertion    *)
(* order, with pairwise distinct keys.                                     *)
(***************************************************************************)
EXTENDS Integers, Sequences, FiniteSets, TLC

VARIABLES
  fn,              \* the function called
  arg,             \* its arguments
  ret,             \* its return value
  calls,           \* the render_table_for_dan invocations made, in order
  pc,              \* position in the function call or in the script run
  courses,         \* names the module courses defines
  dan_courses_sp,  \* courses.dan_courses_sp (when defined)
  dan_courses_dp,  \* courses.dan_courses_dp (when defined)
  globs,           \* data names bound in the script's globals()
  README,          \* content of README.md, or NoFile
  README_at_start, \* README as the current run found it
  exc,             \* the exception that ended the run, or NoExc
  stdout           \* what the run printed

vars == <<fn, arg, ret, calls, pc, courses, dan_courses_sp, dan_courses_dp,
          globs, README, README_at_start, exc, stdout>>

fnVars == <<fn, arg, ret, calls>>
runVars == <<courses, dan_courses_sp, dan_courses_dp, globs, README,
            README_at_start, exc, stdout>>

-----------------------------------------------------------------------------
(* Program constants *)

GAME_ORDER ==
  << <<"7", "t", "h", " ", "s", "t", "y", "l", "e">>,
     <<"8", "t", "h", " ", "s", "t", "y", "l", "e">>,
     <<"9", "t", "h", " ", "s", "t", "y", "l", "e">>,
     <<"1", "0", "t", "h", " ", "s", "t", "y", "l", "e">>,
     <<"1", "1", " ", "I", "I", "D", "X", " ", "R", "E", "D">>,
     <<"1", "2", " ", "H", "A", "P", "P", "Y", " ", "S", "K", "Y">>,
     <<"1", "3", " ", "D", "i", "s", "t", "o", "r", "t", "e", "D">>,
     <<"1", "4", " ", "G", "O", "L", "D">>,
     <<"1", "5", " ", "D", "J", " ", "T", "R", "O", "O", "P", "E", "R", "S">>,
     <<"1", "6", " ", "E", "M", "P", "R", "E", "S", "S">>,
     <<"1", "7", " ", "S", "I", "R", "I", "U", "S">>,
     <<"1", "8", " ", "R", "e", "s", "o", "r", "t", " ", "A", "n", "t", "h", "e", "m">>,
     <<"1", "9", " ", "L", "i", "n", "c", "l", "e">>,
     <<"2", "0", " ", "t", "r", "i", "c", "o", "r", "o">>,
     <<"2", "1", " ", "S", "P", "A", "D", "A">>,
     <<"2", "2", " ", "P", "E", "N", "D", "U", "A", "L">>,
     <<"2", "3", " ", "c", "o", "p", "u", "l", "a">>,
     <<"2", "4", " ", "S", "I", "N", "O", "B", "U", "Z">>,
     <<"2", "5", " ", "C", "A", "N", "N", "O", "N", " ", "B", "A", "L", "L", "E", "R", "S">>,
     <<"2", "6", " ", "R", "o", "o", "t", "a", "g", "e">>,
     <<"2", "6", " ", "R", "o", "o", "t", "a", "g", "e", " ", "(", "o", "f", "f", "l", "i", "n", "e", ")">>,
     <<"2", "7", " ", "H", "E", "R", "O", "I", "C", " ", "V", "E", "R", "S", "E">>,
     <<"2", "8", " ", "B", "I", "S", "T", "R", "O", "V", "E", "R">>,
     <<"2", "9", " ", "C", "a", "s", "t", "H", "o", "u", "r">>,
     <<"3", "0", " ", "R", "E", "S", "I", "D", "E", "N", "T">>,
     <<"3", "1", " ", "E", "P", "O", "L", "I", "S">>,
     <<"3", "2", " ", "P", "i", "n", "k", "y", " ", "C", "r", "u", "s", "h">> >>

DAN_ORDER ==
  << <<"1", "s", "t", " ", "D", "a", "n">>,
     <<"2", "n", "d", " ", "D", "a", "n">>,
     <<"3", "r", "d", " ", "D", "a", "n">>,
     <<"4", "t", "h", " ", "D", "a", "n">>,
     <<"5", "t", "h", " ", "D", "a", "n">>,
     <<"6", "t", "h", " ", "D", "a", "n">>,
     <<"7", "t", "h", " ", "D", "a", "n">>,
     <<"8", "t", "h", " ", "D", "a", "n">>,
     <<"9", "t", "h", " ", "D", "a", "n">>,
     <<"1", "0", "t", "h", " ", "D", "a", "n">>,
     <<"C", "h", "u", "u", "d", "e", "n">>,
     <<"K", "a", "i", "d", "e", "n">> >>

PREAMBLE ==
  <<"p", "y", "t", "h", "o", "n", " ", "2", "d", " ", "d", "i">>
  \o <<"c", "t", "i", "o", "n", "a", "r", "y", " ", "o", "f", " ">>
  \o <<"a", "l", "l", " ", "A", "C", " ", "d", "a", "n", " ", "c">>
  \o <<"o", "u", "r", "s", "e", "s", " ", "f", "r", "o", "m", " ">>
  \o <<"7", "t", "h", " ", "d", "a", "n", " ", "-", " ", "k", "a">>
  \o <<"i", "d", "e", "n", " ", "f", "e", "e", "l", " ", "f", "r">>
  \o <<"e", "e", " ", "t", "o", " ", "a", "d", "d", " ", "P", "R">>
  \o <<" ", "w", "i", "t", "h", " ", "n", "e", "w", " ", "s", "t">>
  \o <<"u", "f", "f", " ", "o", "r", " ", "k", "y", "u", " ", "c">>
  \o <<"o", "u", "r", "s", "e", "s", " ", "I", " ", "a", "m", " ">>
  \o <<"j", "u", "s", "t", " ", "l", "a", "z", "y", " ", "\n">>

\* index.get(k, 10_000): the sort index of a name that GAME_ORDER lacks
UNKNOWN_INDEX == 10000

\* ord(c) of the characters in use; str comparison is by code point
CodePoint ==
  "\n" :> 10 @@ " " :> 32 @@ "#" :> 35 @@ "(" :> 40 @@ ")" :> 41 @@ "," :> 44
  @@ "-" :> 45 @@ "." :> 46 @@ "0" :> 48 @@ "1" :> 49 @@ "2" :> 50 @@ "3" :> 51
  @@ "4" :> 52 @@ "5" :> 53 @@ "6" :> 54 @@ "7" :> 55 @@ "8" :> 56 @@ "9" :> 57
  @@ ":" :> 58 @@ "A" :> 65 @@ "B" :> 66 @@ "C" :> 67 @@ "D" :> 68 @@ "E" :> 69
  @@ "G" :> 71 @@ "H" :> 72 @@ "I" :> 73 @@ "J" :> 74 @@ "K" :> 75 @@ "L" :> 76
  @@ "M" :> 77 @@ "N" :> 78 @@ "O" :> 79 @@ "P" :> 80 @@ "R" :> 82 @@ "S" :> 83
  @@ "T" :> 84 @@ "U" :> 85 @@ "V" :> 86 @@ "W" :> 87 @@ "X" :> 88 @@ "Y" :> 89
  @@ "Z" :> 90 @@ "\\" :> 92 @@ "_" :> 95 @@ "a" :> 97 @@ "b" :> 98
  @@ "c" :> 99 @@ "d" :> 100 @@ "e" :> 101 @@ "f" :> 102 @@ "g" :> 103 @@ "h" :> 104
  @@ "i" :> 105 @@ "j" :> 106 @@ "k" :> 107 @@ "l" :> 108 @@ "m" :> 109 @@ "n" :> 110
  @@ "o" :> 111 @@ "p" :> 112 @@ "r" :> 114 @@ "s" :> 115 @@ "t" :> 116 @@ "u" :> 117
  @@ "w" :> 119 @@ "y" :> 121 @@ "z" :> 122 @@ "|" :> 124

-----------------------------------------------------------------------------
(* Python built-ins *)

Range(s) == {s[i] : i \in 1..Len(s)}

\* a < b for str
RECURSIVE StrLess(_, _)
StrLess(a, b) ==
  IF b = <<>> THEN FALSE
  ELSE IF a = <<>> THEN TRUE
  ELSE IF Head(a) # Head(b) THEN CodePoint[Head(a)] < CodePoint[Head(b)]
  ELSE StrLess(Tail(a), Tail(b))

\* a < b for (int, str) tuples
TupleLess(a, b) ==
  \/ a[1] < b[1]
  \/ a[1] = b[1] /\ StrLess(a[2], b[2])

\* insertion of x into the sorted list s, after every element whose key is
\* not greater (stability)
RECURSIVE Insert(_, _, _)
Insert(x, s, key) ==
  IF s = <<>> THEN <<x>>
  ELSE IF TupleLess(key[x], key[Head(s)]) THEN <<x>> \o s
  ELSE <<Head(s)>> \o Insert(x, Tail(s), key)

\* sorted(xs, key=...): a stable sort by key
RECURSIVE SortedBy(_, _)
SortedBy(xs, key) ==
  IF xs = <<>> THEN <<>>
  ELSE Insert(xs[Len(xs)], SortedBy(SubSeq(xs, 1, Len(xs) - 1), key), key)

\* sorted(xs) for a list of str
sorted(xs) == SortedBy(xs, [x \in Range(xs) |-> <<0, x>>])

\* sep.join(parts)
RECURSIVE join(_, _)
join(sep, parts) ==
  IF parts = <<>> THEN <<>>
  ELSE IF Len(parts) = 1 THEN parts[1]
  ELSE parts[1] \o sep \o join(sep, Tail(parts))

\* str(n) for n >= 0
RECURSIVE str(_)
str(n) ==
  LET digit == <<"0", "1", "2", "3", "4", "5", "6", "7", "8", "9">>[(n % 10) + 1]
  IN IF n < 10 THEN <<digit>> ELSE str(n \div 10) \o <<digit>>

\* [x] * n
RECURSIVE repeat(_, _)
repeat(x, n) == IF n <= 0 THEN <<>> ELSE <<x>> \o repeat(x, n - 1)

\* dict views
keys(d) == [i \in 1..Len(d) |-> d[i][1]]
values(d) == [i \in 1..Len(d) |-> d[i][2]]
get(d, k) == d[CHOOSE i \in 1..Len(d) : d[i][1] = k][2]
has(d, k) == \E i \in 1..Len(d) : d[i][1] = k
InList(x, xs) == \E i \in 1..Len(xs) : xs[i] = x

-----------------------------------------------------------------------------
(* pretty_readme.py *)

\* index = {name: i for i, name in enumerate(GAME_ORDER)}; index.get(k, 10_000)
index_get(k) ==
  IF InList(k, GAME_ORDER)
  THEN (CHOOSE i \in 1..Len(GAME_ORDER) :
          /\ GAME_ORDER[i] = k
          /\ \A j \in (i + 1)..Len(GAME_ORDER) : GAME_ORDER[j] # k) - 1
  ELSE UNKNOWN_INDEX

order_games_by_index(ks) == SortedBy(ks, [k \in Range(ks) |-> <<index_get(k), <<>> >>])

order_games_unsorted(ks) == ks

order_games(ks) == SortedBy(ks, [k \in Range(ks) |-> <<index_get(k), k>>])

max(a, b) == IF a >= b THEN a ELSE b

\* for stages in section.values(): m = max(m, len(stages))
RECURSIVE max_stage_loop(_, _)
max_stage_loop(vals, m) ==
  IF vals = <<>> THEN m
  ELSE max_stage_loop(Tail(vals), max(m, Len(Head(vals))))

max_stage_len_last(section) ==
  IF section = <<>> THEN 0 ELSE Len(section[Len(section)][2])

max_stage_len(section) == max_stage_loop(values(section), 0)

\* header = ["Game"] + [f"Stage {i}" for i in range(1, cols + 1)]
header(cols) ==
  << <<"G", "a", "m", "e">> >>
    \o [i \in 1..cols |-> <<"S", "t", "a", "g", "e", " ">> \o str(i)]

\* sep = ["---"] * (cols + 1)
sep(cols) == repeat(<<"-", "-", "-">>, cols + 1)

replace_none(cell) == cell

\* cell.replace("|", r"\|")
RECURSIVE replace(_)
replace(cell) ==
  IF cell = <<>> THEN <<>>
  ELSE (IF Head(cell) = "|" THEN <<"\\", "|">> ELSE <<Head(cell)>>)
         \o replace(Tail(cell))

row_unpadded(game, stages, cols) ==
  LET cells == <<game>> \o stages
  IN [i \in 1..Len(cells) |-> replace(cells[i])]

\* row = [game] + stages + [""] * (cols - len(stages)), each cell escaped
row(game, stages, cols) ==
  LET cells == <<game>> \o stages \o repeat(<<>>, cols - Len(stages))
  IN [i \in 1..Len(cells) |-> replace(cells[i])]

\* "| " + " | ".join(cells) + " |"
table_line(cells) == <<"|", " ">> \o join(<<" ", "|", " ">>, cells) \o <<" ", "|">>

\* the lines list of render_table_for_dan for a non-empty section
table_lines(dan_name, section) ==
  LET cols  == max_stage_len(section)
      games == order_games(keys(section))
  IN << <<"#", "#", "#", " ">> \o dan_name \o <<"\n">>,
        table_line(header(cols)),
        table_line(sep(cols)) >>
       \o [i \in 1..Len(games) |-> table_line(row(games[i], get(section, games[i]), cols))]
       \o << <<>> >>

render_table_skip_stageless(dan_name, section) ==
  IF max_stage_len(section) = 0 THEN <<>>
  ELSE join(<<"\n">>, table_lines(dan_name, section))

render_table_for_dan(dan_name, section) ==
  IF section = <<>> THEN <<>>
  ELSE join(<<"\n">>, table_lines(dan_name, section))

dan_sequence_unsorted(data) ==
  SelectSeq(DAN_ORDER, LAMBDA d : has(data, d))
    \o SelectSeq(keys(data), LAMBDA d : ~InList(d, DAN_ORDER))

\* known + extras: the Dans of one dataset in the order they are rendered
dan_sequence(data) ==
  LET known  == SelectSeq(DAN_ORDER, LAMBDA d : has(data, d))
      extras == sorted(SelectSeq(keys(data), LAMBDA d : ~InList(d, DAN_ORDER)))
  IN known \o extras

\* the entries appended to `out` for the datasets from position i on
RECURSIVE out_from(_, _)
out_from(datasets, i) ==
  IF i > Len(datasets) THEN <<>>
  ELSE LET title == datasets[i][1]
           data  == datasets[i][2]
           dans  == dan_sequence(data)
       IN << <<"#", "#", " ">> \o title \o <<"\n">> >>
            \o [j \in 1..Len(dans) |-> render_table_for_dan(dans[j], get(data, dans[j]))]
            \o out_from(datasets, i + 1)

DOC_TITLE ==
  <<"#", " ", "B", "e", "a", "t", "m", "a", "n", "i", "a", " ", "I", "I", "D", "X",
    " ", "D", "a", "n", " ", "C", "o", "u", "r", "s", "e", "s", "\n">>

render_markdown(datasets) ==
  join(<<"\n">>, <<DOC_TITLE>> \o out_from(datasets, 1))

\* the render_table_for_dan invocations render_markdown makes, in order
RECURSIVE invocations_from(_, _)
invocations_from(datasets, i) ==
  IF i > Len(datasets) THEN <<>>
  ELSE LET data == datasets[i][2]
           dans == dan_sequence(data)
       IN [j \in 1..Len(dans) |->
             [dataset |-> i, dan_name |-> dans[j], section |-> get(data, dans[j])]]
            \o invocations_from(datasets, i + 1)

SINGLES_PLAY == <<"S", "i", "n", "g", "l", "e", "s", " ", "P", "l", "a", "y">>
DOUBLES_PLAY == <<"D", "o", "u", "b", "l", "e", "s", " ", "P", "l", "a", "y">>

DATA_NAMES == <<"dan_courses_sp", "dan_courses_dp">>

open_append(file) == file.content

\* open(out_path, "w"): the file is created or truncated
open_w(file) == <<>>

NoFile == [exists |-> FALSE, content |-> <<>>]
NoExc == [type |-> "None", names |-> <<>>]

-----------------------------------------------------------------------------
(* Bounded inputs *)

MaxKeys == 3     \* longest key list passed to order_games
MaxGames == 2    \* most games in a section passed to render_table_for_dan
MaxStages == 2   \* longest stage list in such a section
MaxDans == 3     \* most Dans in the datasets passed to render_markdown, altogether

DistinctSeqs(S, n) ==
  UNION {{s \in [1..k -> S] : \A i, j \in 1..k : i < j => s[i] # s[j]} : k \in 0..n}

SeqsUpTo(S, n) == UNION {[1..k -> S] : k \in 0..n}

\* the dict of the items ks[i]: vs[i], inserted in this order
Dict(ks, vs) == [i \in 1..Len(ks) |-> <<ks[i], vs[i]>>]

\* dicts of at most n items, as item lists in every insertion order
Dicts(K, V, n) ==
  UNION {{Dict(ks, vs) : vs \in [1..Len(ks) -> V]} : ks \in DistinctSeqs(K, n)}

\* four names of GAME_ORDER (7th and 10th style are in the opposite
\* alphabetical order, 26 Rootage is a prefix of 26 Rootage (offline)) and
\* three names it lacks, one with a pipe and one ending in a backslash
GameNames ==
  {GAME_ORDER[1], GAME_ORDER[4], GAME_ORDER[20], GAME_ORDER[21],
   <<"a", "|">>, <<"b", "\\">>, <<"B">>}

\* games of a section: two names of GAME_ORDER in the opposite alphabetical
\* order and one it lacks, with a pipe
SectionGames == {GAME_ORDER[1], GAME_ORDER[4], <<"a", "|">>}

\* a plain title, and one with a backslash before a pipe that ends in a
\* backslash
StageTitles == {<<"V">>, <<"\\", "|", "\\">>}

\* two names of DAN_ORDER (in the opposite alphabetical order) and two it lacks
DanNames == {DAN_ORDER[1], DAN_ORDER[10], <<"Z", "e", "t", "a">>, <<"A", "l", "p", "h", "a">>}

\* the empty section and a section of one game
DocSections == {<<>>, << <<GAME_ORDER[1], << <<"V">> >> >> >>}

\* datasets of at most n Dans
RankSections(n) == Dicts(DanNames, DocSections, n)

\* contents of the module courses the script is run against
CoursesData ==
  { <<>>,
    << <<DAN_ORDER[1], << <<GAME_ORDER[1], << <<"V">> >> >> >> >> >>,
    << << <<"Z", "e", "t", "a">>, <<>> >>,
       <<DAN_ORDER[10], << << <<"a", "|">>, << <<"\\", "|">> >> >>,
                           <<GAME_ORDER[4], <<>> >> >> >> >> }

OldFiles == {NoFile, [exists |-> TRUE, content |-> <<"o", "l", "d", "\n">>]}

-----------------------------------------------------------------------------
(* Calls of the pure functions on bounded inputs *)

FnInit ==
  /\ pc = "call"
  /\ \/ /\ fn = "order_games"
        /\ \E ks \in DistinctSeqs(GameNames, MaxKeys) : arg = <<ks>>
     \/ /\ fn = "render_table_for_dan"
        /\ \E ks \in DistinctSeqs(SectionGames, MaxGames) :
             \E vs \in [1..Len(ks) -> SeqsUpTo(StageTitles, MaxStages)] :
               arg = <<DAN_ORDER[1], Dict(ks, vs)>>
     \/ /\ fn = "render_markdown"
        /\ \/ arg = << <<>> >>
           \/ \E d \in RankSections(MaxDans) :
                arg = << << <<SINGLES_PLAY, d>> >> >>
           \/ \E d \in RankSections(MaxDans) :
                \E e \in RankSections(MaxDans - Len(d)) :
                  arg = << << <<SINGLES_PLAY, d>>, <<DOUBLES_PLAY, e>> >> >>
  /\ ret = <<>>
  /\ calls = <<>>
  /\ courses = {}
  /\ dan_courses_sp = <<>>
  /\ dan_courses_dp = <<>>
  /\ globs = {}
  /\ README = NoFile
  /\ README_at_start = NoFile
  /\ exc = NoExc
  /\ stdout = <<>>

CallOrderGames ==
  /\ pc = "call"
  /\ fn = "order_games"
  /\ ret' = order_games(arg[1])
  /\ pc' = "ret"
  /\ UNCHANGED <<fn, arg, calls>>
  /\ UNCHANGED runVars

CallRenderTable ==
  /\ pc = "call"
  /\ fn = "render_table_for_dan"
  /\ ret' = render_table_for_dan(arg[1], arg[2])
  /\ calls' = << [dataset |-> 0, dan_name |-> arg[1], section |-> arg[2]] >>
  /\ pc' = "ret"
  /\ UNCHANGED <<fn, arg>>
  /\ UNCHANGED runVars

CallRenderMarkdown ==
  /\ pc = "call"
  /\ fn = "render_markdown"
  /\ ret' = render_markdown(arg[1])
  /\ calls' = invocations_from(arg[1], 1)
  /\ pc' = "ret"
  /\ UNCHANGED <<fn, arg>>
  /\ UNCHANGED runVars

FnNext == CallOrderGames \/ CallRenderTable \/ CallRenderMarkdown

SpecFn == FnInit /\ [][FnNext]_vars

-----------------------------------------------------------------------------
(* Runs of the script *)

Init ==
  /\ pc = "start"
  /\ courses \in SUBSET Range(DATA_NAMES)
  /\ dan_courses_sp \in CoursesData
  /\ dan_courses_dp \in CoursesData
  /\ globs = {}
  /\ README \in OldFiles
  /\ README_at_start = README
  /\ exc = NoExc
  /\ stdout = <<>>
  /\ fn = "none"
  /\ arg = <<>>
  /\ ret = <<>>
  /\ calls = <<>>

\* from courses import dan_courses_sp, dan_courses_dp: the names are looked up
\* and bound one after the other; the first one missing raises ImportError
Import ==
  /\ pc = "start"
  /\ LET missing == SelectSeq(DATA_NAMES, LAMBDA n : n \notin courses)
     IN IF missing # <<>>
        THEN /\ exc' = [type |-> "ImportError", names |-> <<missing[1]>>]
             /\ globs' = {DATA_NAMES[i] : i \in {i \in 1..Len(DATA_NAMES) :
                                                   \A j \in 1..i : DATA_NAMES[j] \in courses}}
             /\ pc' = "raised"
        ELSE /\ globs' = Range(DATA_NAMES)
             /\ pc' = "main"
             /\ exc' = exc
  /\ UNCHANGED <<courses, dan_courses_sp, dan_courses_dp, README, README_at_start, stdout>>
  /\ UNCHANGED fnVars

\* main()
Main ==
  /\ pc = "main"
  /\ LET missing == SelectSeq(DATA_NAMES, LAMBDA n : n \notin globs)
     IN IF missing # <<>>
        THEN /\ exc' = [type |-> "SystemExit", names |-> missing]
             /\ pc' = "raised"
             /\ UNCHANGED <<README, stdout>>
        ELSE LET md == render_markdown(<< <<SINGLES_PLAY, dan_courses_sp>>,
                                          <<DOUBLES_PLAY, dan_courses_dp>> >>)
             IN /\ README' = [exists |-> TRUE, content |-> open_w(README) \o PREAMBLE \o md]
                /\ stdout' = <<"Wrote README.md">>
                /\ pc' = "done"
                /\ exc' = exc
  /\ UNCHANGED <<courses, dan_courses_sp, dan_courses_dp, globs, README_at_start>>
  /\ UNCHANGED fnVars

\* the script is run again, against the module courses of that time
Run ==
  /\ pc \in {"done", "raised"}
  /\ pc' = "start"
  /\ courses' \in SUBSET Range(DATA_NAMES)
  /\ dan_courses_sp' \in CoursesData
  /\ dan_courses_dp' \in CoursesData
  /\ globs' = {}
  /\ exc' = NoExc
  /\ stdout' = <<>>
  /\ README_at_start' = README
  /\ UNCHANGED README
  /\ UNCHANGED fnVars

Next == Import \/ Main \/ Run

Spec == Init /\ [][Next]_vars

-----------------------------------------------------------------------------
(* Reading of rendered Markdown text, for the statements below *)

RECURSIVE Ascending(_)
Ascending(S) ==
  IF S = {} THEN <<>>
  ELSE LET m == CHOOSE x \in S : \A y \in S : x <= y
       IN <<m>> \o Ascending(S \ {m})

\* the pieces of text between the positions of P
Pieces(text, P) ==
  LET b == <<0>> \o Ascending(P) \o <<Len(text) + 1>>
  IN [k \in 1..(Len(b) - 1) |-> SubSeq(text, b[k] + 1, b[k + 1] - 1)]

Lines(text) == Pieces(text, {i \in 1..Len(text) : text[i] = "\n"})

\* a pipe is escaped when a backslash stands right before it ("prefixed with a
\* backslash"); every other pipe of a table line delimits columns
Delimiters(line) ==
  {i \in 1..Len(line) : line[i] = "|" /\ (i = 1 \/ line[i - 1] # "\\")}

IsTableLine(line) ==
  /\ Len(line) >= 2
  /\ 1 \in Delimiters(line)
  /\ Len(line) \in Delimiters(line)

Trim(c) ==
  IF Len(c) >= 2 /\ c[1] = " " /\ c[Len(c)] = " " THEN SubSeq(c, 2, Len(c) - 1) ELSE c

\* the cell texts of a table line, as written (escapes included)
Cells(line) ==
  LET d == Ascending(Delimiters(line))
  IN [k \in 1..(Len(d) - 1) |-> Trim(SubSeq(line, d[k] + 1, d[k + 1] - 1))]

\* the text a cell shows: the escaping backslashes taken out
Unescape(c) ==
  LET keep == Ascending({i \in 1..Len(c) :
                           ~(c[i] = "\\" /\ i < Len(c) /\ c[i + 1] = "|")})
  IN [k \in 1..Len(keep) |-> c[keep[k]]]

PipeCount(t) == Cardinality({i \in 1..Len(t) : t[i] = "|"})

\* c is t with \| in place of each |
IsEscapeOf(c, t) ==
  /\ Unescape(c) = t
  /\ Len(c) = Len(t) + PipeCount(t)
  /\ \A i \in 1..Len(c) : c[i] = "|" => i > 1 /\ c[i - 1] = "\\"

StartsWith(line, prefix) ==
  Len(line) >= Len(prefix) /\ SubSeq(line, 1, Len(prefix)) = prefix

InChronology(k) == \E i \in 1..Len(GAME_ORDER) : GAME_ORDER[i] = k
ChronologyPos(k) == CHOOSE i \in 1..Len(GAME_ORDER) : GAME_ORDER[i] = k
InRankOrder(d) == \E i \in 1..Len(DAN_ORDER) : DAN_ORDER[i] = d
RankPos(d) == CHOOSE i \in 1..Len(DAN_ORDER) : DAN_ORDER[i] = d

\* a comes strictly before b in string order
Alphabetical(a, b) ==
  \E k \in 1..Len(b) :
    /\ k - 1 <= Len(a)
    /\ \A j \in 1..(k - 1) : a[j] = b[j]
    /\ IF k > Len(a) THEN TRUE ELSE CodePoint[a[k]] < CodePoint[b[k]]

\* listed names first, in the order of the table; then the others, ascending
OrderedBy(r, Listed(_), Pos(_)) ==
  \A i, j \in 1..Len(r) : i < j =>
    /\ Listed(r[j]) => Listed(r[i]) /\ Pos(r[i]) < Pos(r[j])
    /\ ~Listed(r[i]) => ~Listed(r[j]) /\ Alphabetical(r[i], r[j])

Rearrangement(r, ks) ==
  /\ Len(r) = Len(ks)
  /\ Range(r) = Range(ks)
  /\ \A i, j \in 1..Len(r) : i < j => r[i] # r[j]

WidestStageList(section) ==
  IF section = <<>> THEN 0
  ELSE CHOOSE m \in {Len(section[i][2]) : i \in 1..Len(section)} :
         \A i \in 1..Len(section) : Len(section[i][2]) <= m

StageLabel(i) ==
  <<"S", "t", "a", "g", "e", " ">> \o << <<"1", "2", "3", "4", "5", "6", "7", "8", "9">>[i] >>

Perms(n) == {p \in [1..n -> 1..n] : \A i, j \in 1..n : i < j => p[i] # p[j]}
Reordered(d, p) == [i \in 1..Len(d) |-> d[p[i]]]

Returned(f) == pc = "ret" /\ fn = f

\* the data row lines of a rendered table
DataRows(text, section) ==
  LET L == Lines(text) IN [i \in 1..Len(section) |-> L[4 + i]]

-----------------------------------------------------------------------------
(* order_games *)

\* C1: order_games returns a reordering of exactly the names it is given
\* (same length, none dropped or duplicated; the empty list included) in which
\* the names of GAME_ORDER come first in GAME_ORDER's order, every other name
\* comes after all of them, and the other names are in ascending string order.
C1_OrderGames ==
  Returned("order_games") =>
    /\ Rearrangement(ret, arg[1])
    /\ OrderedBy(ret, InChronology, ChronologyPos)

C1_Witness ==
  /\ Returned("order_games")
  /\ ret # arg[1]
  /\ \E i \in 1..Len(ret) : InChronology(ret[i])
  /\ Cardinality({i \in 1..Len(ret) : ~InChronology(ret[i])}) >= 2

-----------------------------------------------------------------------------
(* render_table_for_dan *)

\* C2: for a non-empty section the table has a header row of exactly cols+1
\* cells, "Game" then "Stage 1".."Stage cols" in ascending order, and a
\* separator row of exactly cols+1 "---" cells, cols being the length of the
\* longest stage list of the section.
C2_HeaderAndSeparator ==
  (Returned("render_table_for_dan") /\ arg[2] # <<>>) =>
    LET L    == Lines(ret)
        cols == WidestStageList(arg[2])
    IN /\ Len(L) >= 4
       /\ IsTableLine(L[3])
       /\ Cells(L[3]) = << <<"G", "a", "m", "e">> >> \o [i \in 1..cols |-> StageLabel(i)]
       /\ IsTableLine(L[4])
       /\ Cells(L[4]) = [i \in 1..(cols + 1) |-> <<"-", "-", "-">>]

C2_Witness ==
  /\ Returned("render_table_for_dan")
  /\ Len(arg[2]) >= 2
  /\ WidestStageList(arg[2]) >= 2
  /\ Len(arg[2][Len(arg[2])][2]) < WidestStageList(arg[2])

\* C3: for a non-empty section there is exactly one data row per game, the
\* rows are in order_games order, and each row is the game name, then the
\* game's stage titles in their order, then empty cells up to cols: every data
\* row has cols+1 cells, as the header and the separator have.
C3_DataRows ==
  (Returned("render_table_for_dan") /\ arg[2] # <<>>) =>
    LET section == arg[2]
        L       == Lines(ret)
        cols    == WidestStageList(section)
        rows    == [i \in 1..Len(section) |-> Cells(L[4 + i])]
        shown   == [i \in 1..Len(section) |-> Unescape(rows[i][1])]
    IN /\ Len(L) = Len(section) + 5
       /\ L[Len(L)] = <<>>
       /\ \A i \in 1..Len(section) : IsTableLine(L[4 + i]) /\ Len(rows[i]) = cols + 1
       /\ Len(Cells(L[3])) = cols + 1
       /\ Len(Cells(L[4])) = cols + 1
       /\ Rearrangement(shown, keys(section))
       /\ OrderedBy(shown, InChronology, ChronologyPos)
       /\ \A i \in 1..Len(section) :
            LET stages == get(section, shown[i])
            IN \A k \in 1..cols :
                 Unescape(rows[i][k + 1]) = IF k <= Len(stages) THEN stages[k] ELSE <<>>

C3_Witness ==
  /\ Returned("render_table_for_dan")
  /\ Len(arg[2]) >= 2
  /\ Len(arg[2][1][2]) # Len(arg[2][2][2])
  /\ Unescape(Cells(Lines(ret)[5])[1]) # arg[2][1][1]

\* C4: the rendered cell of a text holds \| in place of each |, and a data row
\* shows no unescaped | but its column delimiters, which are cols+2 whatever
\* the cell texts are.
C4_PipesEscaped ==
  (Returned("render_table_for_dan") /\ arg[2] # <<>>) =>
    LET section == arg[2]
        cols    == WidestStageList(section)
        games   == order_games(keys(section))
        rows    == DataRows(ret, section)
    IN \A i \in 1..Len(section) :
         LET texts == <<games[i]>> \o get(section, games[i])
         IN /\ Cardinality(Delimiters(rows[i])) = cols + 2
            /\ \A k \in 1..Len(texts) : IsEscapeOf(Cells(rows[i])[k], texts[k])

C4_Witness ==
  /\ Returned("render_table_for_dan")
  /\ \E i \in 1..Len(arg[2]) :
       /\ PipeCount(arg[2][i][1]) > 0
       /\ \E k \in 1..Len(arg[2][i][2]) :
            LET t == arg[2][i][2][k]
            IN PipeCount(t) > 0 /\ t[1] = "\\" /\ t[Len(t)] = "\\"

\* C8: render_table_for_dan returns the empty string exactly for the empty
\* section; a non-empty section whose stage lists are all empty still gives
\* the level-3 heading and a table of the single column "Game" with one row
\* per game.
C8_EmptyOnlyForEmptySection ==
  Returned("render_table_for_dan") =>
    /\ (ret = <<>>) <=> (arg[2] = <<>>)
    /\ (arg[2] # <<>> /\ WidestStageList(arg[2]) = 0) =>
         LET L == Lines(ret)
         IN /\ L[1] = <<"#", "#", "#", " ">> \o arg[1]
            /\ Cells(L[3]) = << <<"G", "a", "m", "e">> >>
            /\ Len(L) = Len(arg[2]) + 5
            /\ \A i \in 1..Len(arg[2]) : IsTableLine(L[4 + i]) /\ Len(Cells(L[4 + i])) = 1

C8_Witness ==
  /\ Returned("render_table_for_dan")
  /\ Len(arg[2]) >= 2
  /\ WidestStageList(arg[2]) = 0
  /\ ret # <<>>

-----------------------------------------------------------------------------
(* render_markdown *)

\* the invocations made for dataset k
CallsFor(k) == SelectSeq(calls, LAMBDA c : c.dataset = k)

\* C5: render_markdown invokes the table renderer exactly once per rank of
\* each dataset: first the ranks of DAN_ORDER, in DAN_ORDER's order, then the
\* other ranks of the dataset in ascending string order; the datasets are
\* taken in input order.
C5_RankOrder ==
  Returned("render_markdown") =>
    LET datasets == arg[1]
        L        == Lines(ret)
    IN /\ \A i, j \in 1..Len(calls) : i < j => calls[i].dataset <= calls[j].dataset
       /\ \A i \in 1..Len(calls) : calls[i].dataset \in 1..Len(datasets)
       /\ \A k \in 1..Len(datasets) :
            LET data  == datasets[k][2]
                names == [i \in 1..Len(CallsFor(k)) |-> CallsFor(k)[i].dan_name]
            IN /\ Rearrangement(names, keys(data))
               /\ OrderedBy(names, InRankOrder, RankPos)
               /\ \A i \in 1..Len(names) : CallsFor(k)[i].section = get(data, names[i])
       /\ SelectSeq(L, LAMBDA l : StartsWith(l, <<"#", "#", "#", " ">>))
            = [i \in 1..Len(SelectSeq(calls, LAMBDA c : c.section # <<>>)) |->
                 <<"#", "#", "#", " ">>
                   \o SelectSeq(calls, LAMBDA c : c.section # <<>>)[i].dan_name]
       /\ SelectSeq(L, LAMBDA l : StartsWith(l, <<"#", "#", " ">>))
            = [k \in 1..Len(datasets) |-> <<"#", "#", " ">> \o datasets[k][1]]

C5_Witness ==
  /\ Returned("render_markdown")
  /\ Len(arg[1]) = 2
  /\ arg[1][2][2] # <<>>
  /\ LET data == arg[1][1][2]
     IN /\ Len(data) = 2
        /\ ~InRankOrder(data[1][1])
        /\ ~InRankOrder(data[2][1])
        /\ Alphabetical(data[2][1], data[1][1])
        /\ data[1][2] = <<>>
        /\ data[2][2] # <<>>

\* a line that opens a structural block: a heading, or the first line of a table
OpensBlock(L, i) ==
  \/ StartsWith(L[i], <<"#">>)
  \/ StartsWith(L[i], <<"|">>) /\ (i = 1 \/ ~StartsWith(L[i - 1], <<"|">>))

\* C9: in the text render_markdown returns, two consecutive structural blocks
\* (document title, level-2 heading, level-3 heading, table) are separated by
\* exactly one blank line, never none and never two or more, also when some
\* rank's section is empty.
C9_OneBlankLineBetweenBlocks ==
  Returned("render_markdown") =>
    LET L == Lines(ret)
    IN \A i \in 2..Len(L) :
         OpensBlock(L, i) => /\ L[i - 1] = <<>>
                             /\ i >= 3
                             /\ L[i - 2] # <<>>

-----------------------------------------------------------------------------
(* insertion order *)

\* C10: the rendered text does not depend on insertion order: a section with
\* the same game-to-stages items in another order gives the same table text,
\* and a dataset with the same rank-to-section items in another order gives
\* the same document text.
C10_InsertionOrderIrrelevant ==
  /\ Returned("render_table_for_dan") =>
       \A p \in Perms(Len(arg[2])) :
         render_table_for_dan(arg[1], Reordered(arg[2], p)) = ret
  /\ Returned("render_markdown") =>
       \A k \in 1..Len(arg[1]) :
         \A p \in Perms(Len(arg[1][k][2])) :
           render_markdown([i \in 1..Len(arg[1]) |->
                              IF i = k
                              THEN <<arg[1][i][1], Reordered(arg[1][i][2], p)>>
                              ELSE arg[1][i]]) = ret

C10_Witness ==
  /\ Returned("render_table_for_dan")
  /\ Len(arg[2]) = 2
  /\ Unescape(Cells(Lines(ret)[5])[1]) = arg[2][2][1]
  /\ render_table_for_dan(arg[1], Reordered(arg[2], <<2, 1>>)) = ret

-----------------------------------------------------------------------------
(* the entry point *)

MissingFromCourses == Range(DATA_NAMES) \ courses

\* C6: run with a required dataset absent, the entry point fails with an
\* error that names every missing dataset and only missing ones, before any
\* open or write of the output file, whose content (or absence) is unchanged.
C6_MissingDatasetsNamed ==
  (pc # "start" /\ MissingFromCourses # {}) =>
    /\ pc = "raised"
    /\ Range(exc.names) = MissingFromCourses
    /\ README = README_at_start

\* C7: after a successful run, whatever the output file held before, its
\* content is exactly the preamble line followed by the document rendered for
\* ("Singles Play", Singles), ("Doubles Play", Doubles): it begins with the
\* preamble line, immediately followed by the document title, and keeps
\* nothing of the earlier content.
C7_FileIsPreambleThenDocument ==
  pc = "done" =>
    LET md == render_markdown(<< <<SINGLES_PLAY, dan_courses_sp>>,
                                 <<DOUBLES_PLAY, dan_courses_dp>> >>)
        L  == Lines(README.content)
    IN /\ README.exists
       /\ README.content = PREAMBLE \o md
       /\ L[1] \o <<"\n">> = PREAMBLE
       /\ L[2] \o <<"\n">> = DOC_TITLE
       /\ SelectSeq(L, LAMBDA l : StartsWith(l, <<"#", "#", " ">>))
            = << <<"#", "#", " ">> \o SINGLES_PLAY, <<"#", "#", " ">> \o DOUBLES_PLAY >>

C7_Witness ==
  /\ pc = "done"
  /\ README_at_start.exists
  /\ README_at_start.content # <<>>
  /\ README_at_start # README
  /\ dan_courses_sp # <<>>
  /\ dan_courses_dp # <<>>
====
